---- MODULE Spec2Model ----
(***************************************************************************)
(* da-simulator: a simulator of synchronous distributed algorithms in the  *)
(* port-numbering model.  The module models                                *)
(*   - the graph builder DaSimulator::from_network (src/src/simulator.rs), *)
(*     including the iteration order of the undirected petgraph container, *)
(*   - Edge::endpoint (src/src/types.rs),                                  *)
(*   - the engine DaSimulator::run: one worker per vertex, two capacity-1  *)
(*     channels per edge, the shared stop counter,                         *)
(*   - the three algorithms of src/src/algorithms/.                        *)
(***************************************************************************)
EXTENDS Integers, Sequences, FiniteSets, TLC

VARIABLES
    alg,             \* the algorithm type parameter A: "BMM", "MVC" or "IN"
    edges,           \* the edge list handed to from_network
    round_limit,     \* the argument of run
    phase,           \* "input", "built", "running", "finished", or a panic
    graph,           \* the petgraph container: node_count and the inserted edges
    edge_w,          \* the Edge weight of every inserted edge (channel, connected)
    state,           \* the node weights: the state of every vertex
    senders,         \* per vertex, the channel it sends on, per port
    receivers,       \* per vertex, the channel it receives from, per port
    chan,            \* every bounded(1) channel: buffer, sender dropped, receiver dropped
    pc,              \* per worker, its position in the loop of run
    idx,             \* per worker, the port its send or receive phase has reached
    msgs,            \* per worker, the messages collected in this receive phase
    stopping_state,  \* per worker, the local Option<S>
    iterations,      \* per worker, the local counter of completed rounds
    stop_count,      \* the shared AtomicU32
    panicked,        \* the workers whose thread panicked
    unfinished,      \* the count run reports at the end
    expired,         \* the workers whose deadline has passed
    calls            \* the calls of Edge::endpoint made outside run, in order

vars == <<alg, edges, round_limit, phase, graph, edge_w, state, senders, receivers,
          chan, pc, idx, msgs, stopping_state, iterations, stop_count, panicked,
          unfinished, expired, calls>>

(***************************************************************************)
(* Bounds of the model.                                                    *)
(***************************************************************************)
\* Vertex indices of the edge lists given to the builder alone: 0..MaxNodeId.
MaxNodeId == 2
\* Length of the edge lists given to the builder alone.
MaxEdges == 2
\* Rounds a worker may begin while the stop counter is below node_count.
MaxIter == 8
\* The const generic D of IsomorphicNeighborhood<D>.
D == 2
\* Calls of Edge::endpoint made on the edges of a built graph outside run.
MaxCalls == 4
\* The round_limit arguments of the runs with a limit: 0..MaxRoundLimit.
MaxRoundLimit == 2

(***************************************************************************)
(* Sequence helpers.                                                       *)
(***************************************************************************)
Reverse(s) == [k \in 1..Len(s) |-> s[Len(s) + 1 - k]]

Indices(s) == [k \in 1..Len(s) |-> k]

Max2(a, b) == IF a > b THEN a ELSE b

MinOf(S) == CHOOSE x \in S : \A y \in S : x <= y

RECURSIVE SumSeq(_)
SumSeq(s) == IF s = <<>> THEN 0 ELSE s[1] + SumSeq(Tail(s))

\* Iterator::any in the place of Iterator::all: the first insert decides.
AllInsert_Any(s) == s # <<>>

\* Iterator::all(|t| uniq.insert(t)): no element occurs twice.
AllInsert(s) == \A i, j \in 1..Len(s) : i # j => s[i] # s[j]

(***************************************************************************)
(* The petgraph container, as from_network and edges use it.               *)
(***************************************************************************)
\* max over the edge list of a.max(b); the list is not empty.
MaxIndex(es) == CHOOSE m \in {Max2(es[k][1], es[k][2]) : k \in 1..Len(es)} :
                    \A k \in 1..Len(es) : Max2(es[k][1], es[k][2]) <= m

\* node_degrees: every occurrence of i in the list counts, a pair (i, i) twice.
node_degrees(es, i) ==
    Cardinality({k \in 1..Len(es) : es[k][1] = i})
  + Cardinality({k \in 1..Len(es) : es[k][2] = i})

\* The swap of source and target before add_edge.
Normalise(e) == IF e[1] > e[2] THEN <<e[2], e[1]>> ELSE e

\* Graph::add_edge for every element of the list, in order.
AddEdges(es) == [k \in 1..Len(es) |-> Normalise(es[k])]

\* Graph::edges(i) of an undirected graph: the outgoing list of i, newest edge
\* first, then the incoming list of i, newest first, a self-loop only once.
\* The result is the sequence of edge indices.
graph_edges(ge, i) ==
    SelectSeq(Reverse(Indices(ge)), LAMBDA k : ge[k][1] = i)
  \o SelectSeq(Reverse(Indices(ge)), LAMBDA k : ge[k][2] = i /\ ge[k][1] # i)

\* EdgeReference::target() as edges(i) yields it: the other end of the edge.
target(ge, i, k) == IF ge[k][1] = i THEN ge[k][2] ELSE ge[k][1]

\* The targets from_network feeds to uniq.insert for vertex i.
Targets(ge, i) == [n \in 1..Len(graph_edges(ge, i)) |-> target(ge, i, graph_edges(ge, i)[n])]

\* "Ensure that the graph is simple".
IsSimple(n, ge) == \A i \in 0..(n - 1) : AllInsert(Targets(ge, i))

\* DaSimulator::edges: the edges of a vertex in order of port numbers.
edges_of(ge, i) == Reverse(graph_edges(ge, i))

(***************************************************************************)
(* Bipartite Maximal Matching, src/src/algorithms/bipartite.rs.            *)
(***************************************************************************)
\* enum MatchingState; the port of Ur and Us is a placeholder that is never read.
Ur == [tag |-> "Ur", i |-> 0]

Mr(i) == [tag |-> "Mr", i |-> i]

Us == [tag |-> "Us", i |-> 0]

Ms(i) == [tag |-> "Ms", i |-> i]

\* impl From<u32> for NodeColor.
NodeColor(i) == IF i % 2 = 0 THEN "White" ELSE "Black"

\* BipartiteMaximalMatching::init.
BpInit(info) ==
    [degree |-> info.node_degree,
     color |-> NodeColor(info.node_id),
     round |-> 0,
     matching_state |-> Ur,
     m_set |-> {},
     x_set |-> IF NodeColor(info.node_id) = "White" THEN {}
               ELSE 0..(info.node_degree - 1)]

\* BpState::matched.
BpMatched(s) == s.matching_state.tag = "Ms"

\* impl State for BpState: is_output.
BpIsOutput(s) == s.matching_state.tag \in {"Us", "Ms"}

\* PartialEq of BpState as #[derive(PartialEq)] would give it: every field.
BpEq_Derived(s, t) == s = t

\* impl PartialEq for BpState: only matching_state is compared.
BpEq(s, t) == s.matching_state = t.matching_state

\* BipartiteMaximalMatching::send with the Accept of a Black vertex sent on every
\* port instead of port min(m_set) alone.
BpSend_AcceptAll(s, i) ==
    IF /\ s.color = "White" /\ s.matching_state = Ur
       /\ s.round % 2 = 0 /\ s.round \div 2 < s.degree
    THEN (IF i = s.round \div 2 THEN "Proposal" ELSE "Noop")
    ELSE IF s.color = "White" /\ s.matching_state.tag = "Mr" /\ s.round % 2 = 0
    THEN "Matched"
    ELSE IF /\ s.color = "Black" /\ s.matching_state = Ur
            /\ s.round % 2 # 0 /\ s.m_set # {}
    THEN "Accept"
    ELSE "Noop"

\* BipartiteMaximalMatching::send with the earlier trigger of a White vertex,
\* round < degree in the place of round / 2 < degree.
BpSend_RoundBelowDegree(s, i) ==
    IF /\ s.color = "White" /\ s.matching_state = Ur
       /\ s.round % 2 = 0 /\ s.round < s.degree
    THEN (IF i = s.round \div 2 THEN "Proposal" ELSE "Noop")
    ELSE IF s.color = "White" /\ s.matching_state.tag = "Mr" /\ s.round % 2 = 0
    THEN "Matched"
    ELSE IF /\ s.color = "Black" /\ s.matching_state = Ur
            /\ s.round % 2 # 0 /\ s.m_set # {}
    THEN (IF i = MinOf(s.m_set) THEN "Accept" ELSE "Noop")
    ELSE "Noop"

\* BipartiteMaximalMatching::send: element i (from 0) of the iterator.
BpSend(s, i) ==
    IF /\ s.color = "White" /\ s.matching_state = Ur
       /\ s.round % 2 = 0 /\ s.round \div 2 < s.degree
    THEN (IF i = s.round \div 2 THEN "Proposal" ELSE "Noop")
    ELSE IF s.color = "White" /\ s.matching_state.tag = "Mr" /\ s.round % 2 = 0
    THEN "Matched"
    ELSE IF /\ s.color = "Black" /\ s.matching_state = Ur
            /\ s.round % 2 # 0 /\ s.m_set # {}
    THEN (IF i = MinOf(s.m_set) THEN "Accept" ELSE "Noop")
    ELSE "Noop"

\* The ports (from 0) on which msg holds the message m.
PortsWith(msg, m) == {k - 1 : k \in {j \in 1..Len(msg) : msg[j] = m}}

MaxOf(S) == CHOOSE x \in S : \A y \in S : y <= x

\* BipartiteMaximalMatching::receive with a Black vertex recording the largest
\* port of m_set where send accepted the smallest.
BpReceive_BlackMax(s, msg) ==
    LET result == [s EXCEPT !.round = s.round + 1]
        acc    == PortsWith(msg, "Accept")
    IN  IF /\ s.color = "White" /\ s.matching_state = Ur
           /\ s.round % 2 = 0 /\ s.round \div 2 + 1 > s.degree
        THEN [result EXCEPT !.matching_state = Us]
        ELSE IF s.color = "White" /\ s.matching_state.tag = "Mr" /\ s.round % 2 = 0
        THEN [result EXCEPT !.matching_state = Ms(s.matching_state.i)]
        ELSE IF /\ s.color = "White" /\ s.matching_state = Ur
                /\ s.round % 2 # 0 /\ acc # {}
        THEN [result EXCEPT !.matching_state = Mr(MinOf(acc))]
        ELSE IF /\ s.color = "Black" /\ s.matching_state = Ur
                /\ s.round % 2 # 0 /\ s.m_set # {}
        THEN [result EXCEPT !.matching_state = Ms(MaxOf(s.m_set))]
        ELSE IF /\ s.color = "Black" /\ s.matching_state = Ur
                /\ s.round % 2 # 0 /\ s.x_set = {}
        THEN [result EXCEPT !.matching_state = Us]
        ELSE IF s.color = "Black" /\ s.matching_state = Ur /\ s.round % 2 = 0
        THEN [result EXCEPT !.x_set = s.x_set \ PortsWith(msg, "Matched"),
                            !.m_set = s.m_set \cup PortsWith(msg, "Proposal")]
        ELSE result

\* BipartiteMaximalMatching::receive with a Black vertex that does not take the
\* ports of Matched messages out of x_set.
BpReceive_KeepX(s, msg) ==
    LET result == [s EXCEPT !.round = s.round + 1]
        acc    == PortsWith(msg, "Accept")
    IN  IF /\ s.color = "White" /\ s.matching_state = Ur
           /\ s.round % 2 = 0 /\ s.round \div 2 + 1 > s.degree
        THEN [result EXCEPT !.matching_state = Us]
        ELSE IF s.color = "White" /\ s.matching_state.tag = "Mr" /\ s.round % 2 = 0
        THEN [result EXCEPT !.matching_state = Ms(s.matching_state.i)]
        ELSE IF /\ s.color = "White" /\ s.matching_state = Ur
                /\ s.round % 2 # 0 /\ acc # {}
        THEN [result EXCEPT !.matching_state = Mr(MinOf(acc))]
        ELSE IF /\ s.color = "Black" /\ s.matching_state = Ur
                /\ s.round % 2 # 0 /\ s.m_set # {}
        THEN [result EXCEPT !.matching_state = Ms(MinOf(s.m_set))]
        ELSE IF /\ s.color = "Black" /\ s.matching_state = Ur
                /\ s.round % 2 # 0 /\ s.x_set = {}
        THEN [result EXCEPT !.matching_state = Us]
        ELSE IF s.color = "Black" /\ s.matching_state = Ur /\ s.round % 2 = 0
        THEN [result EXCEPT !.m_set = s.m_set \cup PortsWith(msg, "Proposal")]
        ELSE result

\* BipartiteMaximalMatching::receive with a White vertex that gives up when its
\* last proposal is still under way: round / 2 + 1 >= degree.
BpReceive_EarlyUs(s, msg) ==
    LET result == [s EXCEPT !.round = s.round + 1]
        acc    == PortsWith(msg, "Accept")
    IN  IF /\ s.color = "White" /\ s.matching_state = Ur
           /\ s.round % 2 = 0 /\ s.round \div 2 + 1 >= s.degree
        THEN [result EXCEPT !.matching_state = Us]
        ELSE IF s.color = "White" /\ s.matching_state.tag = "Mr" /\ s.round % 2 = 0
        THEN [result EXCEPT !.matching_state = Ms(s.matching_state.i)]
        ELSE IF /\ s.color = "White" /\ s.matching_state = Ur
                /\ s.round % 2 # 0 /\ acc # {}
        THEN [result EXCEPT !.matching_state = Mr(MinOf(acc))]
        ELSE IF /\ s.color = "Black" /\ s.matching_state = Ur
                /\ s.round % 2 # 0 /\ s.m_set # {}
        THEN [result EXCEPT !.matching_state = Ms(MinOf(s.m_set))]
        ELSE IF /\ s.color = "Black" /\ s.matching_state = Ur
                /\ s.round % 2 # 0 /\ s.x_set = {}
        THEN [result EXCEPT !.matching_state = Us]
        ELSE IF s.color = "Black" /\ s.matching_state = Ur /\ s.round % 2 = 0
        THEN [result EXCEPT !.x_set = s.x_set \ PortsWith(msg, "Matched"),
                            !.m_set = s.m_set \cup PortsWith(msg, "Proposal")]
        ELSE result

\* BipartiteMaximalMatching::receive without the rule that takes a Black vertex
\* with a proposal to MS.
BpReceive_BlackNoMs(s, msg) ==
    LET result == [s EXCEPT !.round = s.round + 1]
        acc    == PortsWith(msg, "Accept")
    IN  IF /\ s.color = "White" /\ s.matching_state = Ur
           /\ s.round % 2 = 0 /\ s.round \div 2 + 1 > s.degree
        THEN [result EXCEPT !.matching_state = Us]
        ELSE IF s.color = "White" /\ s.matching_state.tag = "Mr" /\ s.round % 2 = 0
        THEN [result EXCEPT !.matching_state = Ms(s.matching_state.i)]
        ELSE IF /\ s.color = "White" /\ s.matching_state = Ur
                /\ s.round % 2 # 0 /\ acc # {}
        THEN [result EXCEPT !.matching_state = Mr(MinOf(acc))]
        ELSE IF /\ s.color = "Black" /\ s.matching_state = Ur
                /\ s.round % 2 # 0 /\ s.x_set = {}
        THEN [result EXCEPT !.matching_state = Us]
        ELSE IF s.color = "Black" /\ s.matching_state = Ur /\ s.round % 2 = 0
        THEN [result EXCEPT !.x_set = s.x_set \ PortsWith(msg, "Matched"),
                            !.m_set = s.m_set \cup PortsWith(msg, "Proposal")]
        ELSE result

\* BipartiteMaximalMatching::receive with the rule from MR to MS bound to odd
\* rounds.
BpReceive_MrOdd(s, msg) ==
    LET result == [s EXCEPT !.round = s.round + 1]
        acc    == PortsWith(msg, "Accept")
    IN  IF /\ s.color = "White" /\ s.matching_state = Ur
           /\ s.round % 2 = 0 /\ s.round \div 2 + 1 > s.degree
        THEN [result EXCEPT !.matching_state = Us]
        ELSE IF s.color = "White" /\ s.matching_state.tag = "Mr" /\ s.round % 2 # 0
        THEN [result EXCEPT !.matching_state = Ms(s.matching_state.i)]
        ELSE IF /\ s.color = "White" /\ s.matching_state = Ur
                /\ s.round % 2 # 0 /\ acc # {}
        THEN [result EXCEPT !.matching_state = Mr(MinOf(acc))]
        ELSE IF /\ s.color = "Black" /\ s.matching_state = Ur
                /\ s.round % 2 # 0 /\ s.m_set # {}
        THEN [result EXCEPT !.matching_state = Ms(MinOf(s.m_set))]
        ELSE IF /\ s.color = "Black" /\ s.matching_state = Ur
                /\ s.round % 2 # 0 /\ s.x_set = {}
        THEN [result EXCEPT !.matching_state = Us]
        ELSE IF s.color = "Black" /\ s.matching_state = Ur /\ s.round % 2 = 0
        THEN [result EXCEPT !.x_set = s.x_set \ PortsWith(msg, "Matched"),
                            !.m_set = s.m_set \cup PortsWith(msg, "Proposal")]
        ELSE result

\* BipartiteMaximalMatching::receive with the update of x_set and m_set of a
\* Black vertex in every even round, whatever its matching state.
BpReceive_UpdateStopped(s, msg) ==
    LET result == [s EXCEPT !.round = s.round + 1]
        acc    == PortsWith(msg, "Accept")
    IN  IF /\ s.color = "White" /\ s.matching_state = Ur
           /\ s.round % 2 = 0 /\ s.round \div 2 + 1 > s.degree
        THEN [result EXCEPT !.matching_state = Us]
        ELSE IF s.color = "White" /\ s.matching_state.tag = "Mr" /\ s.round % 2 = 0
        THEN [result EXCEPT !.matching_state = Ms(s.matching_state.i)]
        ELSE IF /\ s.color = "White" /\ s.matching_state = Ur
                /\ s.round % 2 # 0 /\ acc # {}
        THEN [result EXCEPT !.matching_state = Mr(MinOf(acc))]
        ELSE IF /\ s.color = "Black" /\ s.matching_state = Ur
                /\ s.round % 2 # 0 /\ s.m_set # {}
        THEN [result EXCEPT !.matching_state = Ms(MinOf(s.m_set))]
        ELSE IF /\ s.color = "Black" /\ s.matching_state = Ur
                /\ s.round % 2 # 0 /\ s.x_set = {}
        THEN [result EXCEPT !.matching_state = Us]
        ELSE IF s.color = "Black" /\ s.round % 2 = 0
        THEN [result EXCEPT !.x_set = s.x_set \ PortsWith(msg, "Matched"),
                            !.m_set = s.m_set \cup PortsWith(msg, "Proposal")]
        ELSE result

\* BipartiteMaximalMatching::receive; msg[k] is the message of port k - 1.
BpReceive(s, msg) ==
    LET result == [s EXCEPT !.round = s.round + 1]
        acc    == PortsWith(msg, "Accept")
    IN  IF /\ s.color = "White" /\ s.matching_state = Ur
           /\ s.round % 2 = 0 /\ s.round \div 2 + 1 > s.degree
        THEN [result EXCEPT !.matching_state = Us]
        ELSE IF s.color = "White" /\ s.matching_state.tag = "Mr" /\ s.round % 2 = 0
        THEN [result EXCEPT !.matching_state = Ms(s.matching_state.i)]
        ELSE IF /\ s.color = "White" /\ s.matching_state = Ur
                /\ s.round % 2 # 0 /\ acc # {}
        THEN [result EXCEPT !.matching_state = Mr(MinOf(acc))]
        ELSE IF /\ s.color = "Black" /\ s.matching_state = Ur
                /\ s.round % 2 # 0 /\ s.m_set # {}
        THEN [result EXCEPT !.matching_state = Ms(MinOf(s.m_set))]
        ELSE IF /\ s.color = "Black" /\ s.matching_state = Ur
                /\ s.round % 2 # 0 /\ s.x_set = {}
        THEN [result EXCEPT !.matching_state = Us]
        ELSE IF s.color = "Black" /\ s.matching_state = Ur /\ s.round % 2 = 0
        THEN [result EXCEPT !.x_set = s.x_set \ PortsWith(msg, "Matched"),
                            !.m_set = s.m_set \cup PortsWith(msg, "Proposal")]
        ELSE result

(***************************************************************************)
(* Minimum Vertex Cover 3-Approximation, src/src/algorithms/mvc_3approx.rs.*)
(***************************************************************************)
\* Mvc3approx::init: s1 with node_id 0, s2 with node_id 1.
MvcInit(info) ==
    [s1 |-> BpInit([info EXCEPT !.node_id = 0]),
     s2 |-> BpInit([info EXCEPT !.node_id = 1])]

\* impl State for Mvc3approxState: is_output.
MvcIsOutput(s) == BpIsOutput(s.s1) /\ BpIsOutput(s.s2)

\* #[derive(PartialEq)] on Mvc3approxState: field by field, with BpState's eq.
MvcEq(s, t) == BpEq(s.s1, t.s1) /\ BpEq(s.s2, t.s2)

\* The printed digit with is_output in the place of matched.
MvcDebug_Stopped(s) == IF BpIsOutput(s.s1) \/ BpIsOutput(s.s2) THEN 1 ELSE 0

\* impl Debug for Mvc3approxState: the printed digit.
MvcDebug(s) == IF BpMatched(s.s1) \/ BpMatched(s.s2) THEN 1 ELSE 0

\* Mvc3approx::send without the swap: m1 from s1 and m2 from s2.
MvcSend_NoSwap(s, i) == [m1 |-> BpSend(s.s1, i), m2 |-> BpSend(s.s2, i)]

\* Mvc3approx::send: the zip yields (send(s1)[i], send(s2)[i]), bound to (m2, m1).
MvcSend(s, i) == [m1 |-> BpSend(s.s2, i), m2 |-> BpSend(s.s1, i)]

\* Mvc3approx::receive handing m2 to s1 and m1 to s2.
MvcReceive_Crossed(s, msg) ==
    [s1 |-> BpReceive(s.s1, [k \in 1..Len(msg) |-> msg[k].m2]),
     s2 |-> BpReceive(s.s2, [k \in 1..Len(msg) |-> msg[k].m1])]

\* Mvc3approx::receive: unzip, then the two receives.
MvcReceive(s, msg) ==
    [s1 |-> BpReceive(s.s1, [k \in 1..Len(msg) |-> msg[k].m1]),
     s2 |-> BpReceive(s.s2, [k \in 1..Len(msg) |-> msg[k].m2])]

(***************************************************************************)
(* Isomorphic Neighborhood, src/src/algorithms/isomorphic.rs.              *)
(***************************************************************************)
\* InState::Count(rounds, sum).
Count(i, n) == [i |-> i, n |-> n]

\* IsomorphicNeighborhood::init.
InInit(info) == Count(0, info.node_degree)

\* impl State for InState: is_output.
InIsOutput(s) == s.i = D

\* IsomorphicNeighborhood::send: Number(n) on every port.
InSend(s, i) == s.n

\* IsomorphicNeighborhood::receive adding the vertex's own number to the sum.
InReceive_PlusOwn(s, msg) ==
    IF InIsOutput(s) THEN s ELSE Count(s.i + 1, SumSeq(msg) + s.n)

\* IsomorphicNeighborhood::receive without the test of is_output.
InReceive_NoStop(s, msg) == Count(s.i + 1, SumSeq(msg))

\* IsomorphicNeighborhood::receive.
InReceive(s, msg) == IF InIsOutput(s) THEN s ELSE Count(s.i + 1, SumSeq(msg))

(***************************************************************************)
(* The trait DistributedAlgorithm and the trait State, by algorithm.       *)
(***************************************************************************)
A_init(a, info) ==
    CASE a = "BMM" -> BpInit(info)
      [] a = "MVC" -> MvcInit(info)
      [] a = "IN"  -> InInit(info)

A_send(a, s, i) ==
    CASE a = "BMM" -> BpSend(s, i)
      [] a = "MVC" -> MvcSend(s, i)
      [] a = "IN"  -> InSend(s, i)

A_receive(a, s, msg) ==
    CASE a = "BMM" -> BpReceive(s, msg)
      [] a = "MVC" -> MvcReceive(s, msg)
      [] a = "IN"  -> InReceive(s, msg)

is_output(a, s) ==
    CASE a = "BMM" -> BpIsOutput(s)
      [] a = "MVC" -> MvcIsOutput(s)
      [] a = "IN"  -> InIsOutput(s)

\* PartialEq of the state type S.
StateEq(a, s, t) ==
    CASE a = "BMM" -> BpEq(s, t)
      [] a = "MVC" -> MvcEq(s, t)
      [] a = "IN"  -> s = t

(***************************************************************************)
(* Edge::endpoint, src/src/types.rs.  An Edge holds `channel` (0 for None, *)
(* g for Some of the halves kept from the g-th pair of bounded(1) channels)*)
(* and `connected`; `created` counts the pairs made so far and names them. *)
(* Channel <<e, g, 1>> is (s1, r1) and <<e, g, 2>> is (s2, r2) of pair g.  *)
(***************************************************************************)
EdgeDefault == [channel |-> 0, connected |-> FALSE, created |-> 0]

\* endpoint with a single buffer per edge, shared by both endpoints.
endpoint_SharedBuffer(e, w) ==
    IF w.channel # 0
    THEN [edge  |-> [w EXCEPT !.channel = 0, !.connected = TRUE],
          panic |-> w.connected,
          send  |-> <<e, w.channel, 1>>,
          recv  |-> <<e, w.channel, 1>>]
    ELSE [edge  |-> [w EXCEPT !.channel = w.created + 1, !.created = w.created + 1],
          panic |-> FALSE,
          send  |-> <<e, w.created + 1, 1>>,
          recv  |-> <<e, w.created + 1, 1>>]

\* endpoint handing out the two halves of the same channel: the first call
\* returns (s1, r1), the second (s2, r2).
endpoint_OwnReceiver(e, w) ==
    IF w.channel # 0
    THEN [edge  |-> [w EXCEPT !.channel = 0, !.connected = TRUE],
          panic |-> w.connected,
          send  |-> <<e, w.channel, 2>>,
          recv  |-> <<e, w.channel, 2>>]
    ELSE [edge  |-> [w EXCEPT !.channel = w.created + 1, !.created = w.created + 1],
          panic |-> FALSE,
          send  |-> <<e, w.created + 1, 1>>,
          recv  |-> <<e, w.created + 1, 1>>]

\* The result of one call on edge e with weight w: the weight afterwards, whether
\* the assertion failed, and the channels of the returned (Sender, Receiver).
endpoint(e, w) ==
    IF w.channel # 0
    THEN [edge  |-> [w EXCEPT !.channel = 0, !.connected = TRUE],
          panic |-> w.connected,
          send  |-> <<e, w.channel, 1>>,
          recv  |-> <<e, w.channel, 2>>]
    ELSE [edge  |-> [w EXCEPT !.channel = w.created + 1, !.created = w.created + 1],
          panic |-> FALSE,
          send  |-> <<e, w.created + 1, 2>>,
          recv  |-> <<e, w.created + 1, 1>>]

\* A bounded(1) channel that nobody has used or dropped.
NewChan == [buf |-> <<>>, sdrop |-> FALSE, rdrop |-> FALSE]

(***************************************************************************)
(* DaSimulator::from_network.                                              *)
(***************************************************************************)
NoGraph == [node_count |-> 0, edges |-> <<>>]

from_network ==
    /\ phase = "input"
    /\ IF Len(edges) = 0
       THEN /\ phase' = "panic: no edges given"
            /\ UNCHANGED <<graph, edge_w, state>>
       ELSE LET n  == 1 + MaxIndex(edges)
                ge == AddEdges(edges)
            IN  IF IsSimple(n, ge)
                THEN /\ phase' = "built"
                     /\ graph' = [node_count |-> n, edges |-> ge]
                     /\ edge_w' = [k \in 1..Len(ge) |-> EdgeDefault]
                     /\ state' = [i \in 0..(n - 1) |->
                                    A_init(alg, [node_id |-> i, node_count |-> n,
                                                 node_degree |-> node_degrees(edges, i)])]
                ELSE /\ phase' = "panic: graph must be simple"
                     /\ UNCHANGED <<graph, edge_w, state>>
    /\ UNCHANGED <<alg, edges, round_limit, expired, calls, senders, receivers, chan, pc, idx, msgs,
                   stopping_state, iterations, stop_count, panicked, unfinished>>

(***************************************************************************)
(* DaSimulator::run: the acquisition of the channels and the spawning.     *)
(***************************************************************************)
\* The calls of endpoint in the order run makes them: vertex by vertex, and for
\* each vertex its edges in port order.  Each element is <<vertex, edge>>.
RECURSIVE AcquireOrder(_, _, _)
AcquireOrder(ge, i, n) ==
    IF i >= n THEN <<>>
    ELSE [k \in 1..Len(edges_of(ge, i)) |-> <<i, edges_of(ge, i)[k]>>]
         \o AcquireOrder(ge, i + 1, n)

\* The weight of edge e after j further calls of endpoint, none of which failed.
RECURSIVE EdgeAfter(_, _, _)
EdgeAfter(e, w, j) == IF j = 0 THEN w ELSE endpoint(e, EdgeAfter(e, w, j - 1)).edge

\* The m-th call of the list: what endpoint returns after the earlier calls on
\* the same edge.
Call(list, w, m) ==
    LET e == list[m][2]
    IN  endpoint(e, EdgeAfter(e, w[e], Cardinality({j \in 1..(m - 1) : list[j][2] = e})))

\* The calls made one after the other and the unzip into senders and receivers:
\* the k-th sender and receiver of v come from the call on the k-th edge of v.
AcquireAll(list, w, n) ==
    LET first(v) == Cardinality({j \in 1..Len(list) : list[j][1] < v})
    IN  [edge_w    |-> [e \in DOMAIN w |->
                          EdgeAfter(e, w[e], Cardinality({j \in 1..Len(list) : list[j][2] = e}))],
         panic     |-> \E m \in 1..Len(list) : Call(list, w, m).panic,
         senders   |-> [v \in 0..(n - 1) |->
                          [k \in 1..Cardinality({j \in 1..Len(list) : list[j][1] = v}) |->
                             Call(list, w, first(v) + k).send]],
         receivers |-> [v \in 0..(n - 1) |->
                          [k \in 1..Cardinality({j \in 1..Len(list) : list[j][1] = v}) |->
                             Call(list, w, first(v) + k).recv]]]

Nodes == 0..(graph.node_count - 1)

\* A loop whose receive phase comes before its send phase.
LoopTop_RecvFirst(v) == IF Len(senders[v]) = 0 THEN "transition" ELSE "recv"

\* A loop that goes straight to the call of A::receive.
LoopTop_NoPhases(v) == "transition"

\* The position of a worker at the top of the loop: with no port both phases
\* are empty and the next thing the worker does is the call of A::receive.
LoopTop(v) == IF Len(senders[v]) = 0 THEN "transition" ELSE "send"

run ==
    /\ phase = "built"
    /\ \E n \in {graph.node_count} :
       \E list \in {AcquireOrder(graph.edges, 0, n)} :
       \E a \in {AcquireAll(list, edge_w, n)} :
           /\ edge_w' = a.edge_w
           /\ IF a.panic
              THEN /\ phase' = "panic: attempt to acquire third endpoint for edge"
                   /\ UNCHANGED <<senders, receivers, chan, pc, idx, msgs,
                                  stopping_state, iterations>>
              ELSE /\ phase' = "running"
                   /\ senders' = a.senders
                   /\ receivers' = a.receivers
                   /\ chan' = [c \in UNION {{<<e, g, k>> : g \in 1..a.edge_w[e].created,
                                                            k \in 1..2} :
                                          e \in 1..Len(graph.edges)} |-> NewChan]
                   /\ pc' = [i \in 0..(n - 1) |->
                               IF Len(a.senders[i]) = 0 THEN "transition" ELSE "send"]
                   /\ idx' = [i \in 0..(n - 1) |-> 1]
                   /\ msgs' = [i \in 0..(n - 1) |-> <<>>]
                   /\ stopping_state' = [i \in 0..(n - 1) |-> [some |-> FALSE]]
                   /\ iterations' = [i \in 0..(n - 1) |-> 0]
    /\ stop_count' = 0
    /\ UNCHANGED <<alg, edges, round_limit, expired, calls, graph, state, panicked, unfinished>>

(***************************************************************************)
(* DaSimulator::run: the loop of the worker of vertex v.                   *)
(***************************************************************************)
\* A channel that holds two messages.
Full_Two(c) == Len(chan[c].buf) >= 2

\* bounded(1): the channel holds one message at most.
Full(c) == Len(chan[c].buf) >= 1

\* A worker begins a further round only below the bound on rounds, or when the
\* stop counter lets it leave at the end of that round.
MayBegin(v) == iterations[v] < MaxIter \/ stop_count >= graph.node_count

\* `break`: the worker leaves the loop and drops its channels.
Break(v) == pc' = [pc EXCEPT ![v] = "drop_senders"]

\* One send_deadline of the send phase, on port idx[v], of the message A::send
\* yields for that port.  A full buffer blocks; a dropped receiver is an error.
Send(v) ==
    /\ phase = "running"
    /\ pc[v] = "send"
    /\ idx[v] > 1 \/ MayBegin(v)
    /\ LET c == senders[v][idx[v]]
           m == A_send(alg, state[v], idx[v] - 1)
       IN  IF chan[c].rdrop
           THEN /\ Break(v)
                /\ UNCHANGED <<chan, idx>>
           ELSE /\ ~Full(c)
                /\ chan' = [chan EXCEPT ![c].buf = Append(@, m)]
                /\ IF idx[v] < Len(senders[v])
                   THEN /\ idx' = [idx EXCEPT ![v] = idx[v] + 1]
                        /\ UNCHANGED pc
                   ELSE /\ idx' = [idx EXCEPT ![v] = 1]
                        /\ pc' = [pc EXCEPT ![v] = "recv"]
    /\ UNCHANGED <<alg, edges, round_limit, expired, calls, phase, graph, edge_w, state, senders,
                   receivers, msgs, stopping_state, iterations, stop_count, panicked,
                   unfinished>>

\* One recv_deadline of the receive phase, on port idx[v].  An empty buffer
\* blocks while its sender lives and is an error once the sender is dropped.
Recv(v) ==
    /\ phase = "running"
    /\ pc[v] = "recv"
    /\ LET c == receivers[v][idx[v]]
       IN  IF chan[c].buf # <<>>
           THEN /\ chan' = [chan EXCEPT ![c].buf = Tail(@)]
                /\ msgs' = [msgs EXCEPT ![v] = Append(@, Head(chan[c].buf))]
                /\ IF idx[v] < Len(receivers[v])
                   THEN /\ idx' = [idx EXCEPT ![v] = idx[v] + 1]
                        /\ UNCHANGED pc
                   ELSE /\ idx' = [idx EXCEPT ![v] = 1]
                        /\ pc' = [pc EXCEPT ![v] = "transition"]
           ELSE /\ chan[c].sdrop
                /\ Break(v)
                /\ msgs' = [msgs EXCEPT ![v] = <<>>]
                /\ UNCHANGED <<chan, idx>>
    /\ UNCHANGED <<alg, edges, round_limit, expired, calls, phase, graph, edge_w, state, senders,
                   receivers, stopping_state, iterations, stop_count, panicked,
                   unfinished>>

\* The transition with fetch_add done whenever the new state is a stopping
\* state, also when a stopping state was recorded before.
Transition_CountAgain(v) ==
    /\ phase = "running"
    /\ pc[v] = "transition"
    /\ Len(senders[v]) > 0 \/ MayBegin(v)
    /\ LET new == A_receive(alg, state[v], msgs[v])
       IN  /\ state' = [state EXCEPT ![v] = new]
           /\ msgs' = [msgs EXCEPT ![v] = <<>>]
           /\ pc' = [pc EXCEPT ![v] = "check"]
           /\ UNCHANGED panicked
           /\ IF is_output(alg, new)
              THEN /\ stopping_state' =
                        [stopping_state EXCEPT ![v] = [some |-> TRUE, s |-> new]]
                   /\ stop_count' = stop_count + 1
              ELSE UNCHANGED <<stopping_state, stop_count>>
    /\ UNCHANGED <<alg, edges, round_limit, expired, calls, phase, graph, edge_w, senders,
                   receivers, chan, idx, iterations, unfinished>>

\* *state = A::receive(&state, m), then the stopping-state bookkeeping: the
\* assertion when a stopping state was recorded, else the record and fetch_add.
Transition(v) ==
    /\ phase = "running"
    /\ pc[v] = "transition"
    /\ Len(senders[v]) > 0 \/ MayBegin(v)
    /\ LET new == A_receive(alg, state[v], msgs[v])
       IN  /\ state' = [state EXCEPT ![v] = new]
           /\ msgs' = [msgs EXCEPT ![v] = <<>>]
           /\ IF stopping_state[v].some
              THEN /\ IF StateEq(alg, new, stopping_state[v].s)
                      THEN /\ pc' = [pc EXCEPT ![v] = "check"]
                           /\ UNCHANGED panicked
                      ELSE /\ Break(v)
                           /\ panicked' = panicked \cup {v}
                   /\ UNCHANGED <<stopping_state, stop_count>>
              ELSE /\ pc' = [pc EXCEPT ![v] = "check"]
                   /\ UNCHANGED panicked
                   /\ IF is_output(alg, new)
                      THEN /\ stopping_state' =
                                [stopping_state EXCEPT ![v] = [some |-> TRUE, s |-> new]]
                           /\ stop_count' = stop_count + 1
                      ELSE UNCHANGED <<stopping_state, stop_count>>
    /\ UNCHANGED <<alg, edges, round_limit, expired, calls, phase, graph, edge_w, senders, receivers,
                   chan, idx, iterations, unfinished>>

\* The round limit compared with > in the place of >=.
Check_OneMore(v) ==
    /\ phase = "running"
    /\ pc[v] = "check"
    /\ IF stop_count >= graph.node_count
       THEN /\ Break(v)
            /\ UNCHANGED iterations
       ELSE /\ iterations' = [iterations EXCEPT ![v] = iterations[v] + 1]
            /\ IF round_limit > 0 /\ iterations[v] + 1 > round_limit
               THEN Break(v)
               ELSE pc' = [pc EXCEPT ![v] = LoopTop(v)]
    /\ UNCHANGED <<alg, edges, round_limit, expired, calls, phase, graph, edge_w, state,
                   senders, receivers, chan, idx, msgs, stopping_state, stop_count,
                   panicked, unfinished>>

\* A check that lets the worker leave as soon as its own vertex has stopped.
Check_OwnStop(v) ==
    /\ phase = "running"
    /\ pc[v] = "check"
    /\ IF stop_count >= graph.node_count \/ stopping_state[v].some
       THEN /\ Break(v)
            /\ UNCHANGED iterations
       ELSE /\ iterations' = [iterations EXCEPT ![v] = iterations[v] + 1]
            /\ IF round_limit > 0 /\ iterations[v] + 1 >= round_limit
               THEN Break(v)
               ELSE pc' = [pc EXCEPT ![v] = LoopTop(v)]
    /\ UNCHANGED <<alg, edges, round_limit, expired, calls, phase, graph, edge_w, state,
                   senders, receivers, chan, idx, msgs, stopping_state, stop_count,
                   panicked, unfinished>>

\* The load of the stop counter, then the round limit.
Check(v) ==
    /\ phase = "running"
    /\ pc[v] = "check"
    /\ IF stop_count >= graph.node_count
       THEN /\ Break(v)
            /\ UNCHANGED iterations
       ELSE /\ iterations' = [iterations EXCEPT ![v] = iterations[v] + 1]
            /\ IF round_limit > 0 /\ iterations[v] + 1 >= round_limit
               THEN Break(v)
               ELSE pc' = [pc EXCEPT ![v] = LoopTop(v)]
    /\ UNCHANGED <<alg, edges, round_limit, expired, calls, phase, graph, edge_w, state, senders,
                   receivers, chan, idx, msgs, stopping_state, stop_count, panicked,
                   unfinished>>

\* senders.into_iter().for_each(|s| drop(s)).
DropSenders(v) ==
    /\ phase = "running"
    /\ pc[v] = "drop_senders"
    /\ chan' = [c \in DOMAIN chan |->
                  IF \E k \in 1..Len(senders[v]) : senders[v][k] = c
                  THEN [chan[c] EXCEPT !.sdrop = TRUE] ELSE chan[c]]
    /\ pc' = [pc EXCEPT ![v] = "drop_receivers"]
    /\ UNCHANGED <<alg, edges, round_limit, expired, calls, phase, graph, edge_w, state, senders,
                   receivers, idx, msgs, stopping_state, iterations, stop_count,
                   panicked, unfinished>>

\* receivers.into_iter().for_each(|s| drop(s)); the thread ends.
DropReceivers(v) ==
    /\ phase = "running"
    /\ pc[v] = "drop_receivers"
    /\ chan' = [c \in DOMAIN chan |->
                  IF \E k \in 1..Len(receivers[v]) : receivers[v][k] = c
                  THEN [chan[c] EXCEPT !.rdrop = TRUE, !.buf = <<>>] ELSE chan[c]]
    /\ pc' = [pc EXCEPT ![v] = "done"]
    /\ UNCHANGED <<alg, edges, round_limit, expired, calls, phase, graph, edge_w, state, senders,
                   receivers, idx, msgs, stopping_state, iterations, stop_count,
                   panicked, unfinished>>

\* The count with the negation of is_output left out.
Unfinished_Stopped == Cardinality({v \in Nodes : is_output(alg, state[v])})

\* node_weights().filter(|s| !s.is_output()).count().
Unfinished == Cardinality({v \in Nodes : ~is_output(alg, state[v])})

\* The end of thread::scope and the report of run.
Report ==
    /\ phase = "running"
    /\ \A v \in Nodes : pc[v] = "done"
    /\ IF panicked # {}
       THEN /\ phase' = "panic: a scoped thread panicked"
            /\ UNCHANGED unfinished
       ELSE /\ phase' = "finished"
            /\ unfinished' = Unfinished
    /\ UNCHANGED <<alg, edges, round_limit, expired, calls, graph, edge_w, state, senders, receivers,
                   chan, pc, idx, msgs, stopping_state, iterations, stop_count,
                   panicked>>

(***************************************************************************)
(* The simulations: an algorithm and an edge list, run with round_limit 0  *)
(* and a timeout that does not expire.                                     *)
(***************************************************************************)
\* Edge lists whose every edge joins an even and an odd vertex: an edge, an edge
\* that leaves vertex 0 without edges, paths of three vertices (one beside an odd
\* and one beside an even vertex without edges), the path of four vertices, the
\* 4-cycle, and a tree with a vertex of degree 3.
BipartiteNetworks ==
    { << <<0, 1>> >>,
      << <<1, 2>> >>,
      << <<0, 1>>, <<2, 1>> >>,
      << <<2, 3>>, <<0, 3>> >>,
      << <<1, 2>>, <<2, 3>> >>,
      << <<0, 1>>, <<2, 1>>, <<2, 3>> >>,
      << <<0, 1>>, <<1, 2>>, <<2, 3>>, <<0, 3>> >>,
      << <<0, 1>>, <<2, 1>>, <<4, 1>>, <<2, 3>> >> }

\* Edge lists of simple graphs with an edge between two vertices of one parity.
OddNetworks ==
    { << <<0, 1>>, <<1, 2>>, <<0, 2>> >>,
      << <<1, 3>>, <<0, 1>> >>,
      << <<0, 2>>, <<2, 1>> >> }

\* Edge lists of simple graphs for the vertex cover: with and without odd cycles.
CoverNetworks ==
    { << <<0, 1>> >>,
      << <<1, 2>> >>,
      << <<0, 1>>, <<2, 1>> >>,
      << <<0, 1>>, <<2, 1>>, <<2, 3>> >>,
      << <<0, 1>>, <<1, 2>>, <<2, 3>>, <<0, 3>> >>,
      << <<0, 1>>, <<1, 2>>, <<0, 2>> >>,
      << <<0, 1>>, <<0, 2>>, <<0, 3>> >>,
      << <<0, 1>>, <<0, 2>>, <<1, 2>>, <<2, 3>> >>,
      << <<0, 1>>, <<0, 2>>, <<0, 3>>, <<1, 2>>, <<1, 3>>, <<2, 3>> >> }

\* Edge lists for the neighbourhood count: regular graphs of degree 1, 2 and 3,
\* and graphs that are not regular.
CountNetworks ==
    { << <<0, 1>> >>,
      << <<0, 1>>, <<1, 2>>, <<0, 2>> >>,
      << <<0, 1>>, <<1, 2>>, <<2, 3>>, <<0, 3>> >>,
      << <<0, 1>>, <<0, 2>>, <<0, 3>>, <<1, 2>>, <<1, 3>>, <<2, 3>> >>,
      << <<0, 1>>, <<2, 1>> >>,
      << <<1, 2>> >>,
      << <<0, 1>>, <<0, 2>>, <<1, 2>>, <<2, 3>> >> }

Simulations ==
    ({"BMM"} \X (BipartiteNetworks \cup OddNetworks))
    \cup ({"MVC"} \X CoverNetworks)
    \cup ({"IN"} \X CountNetworks)

InitRun(a, es, rl) ==
    /\ alg = a
    /\ edges = es
    /\ round_limit = rl
    /\ phase = "input"
    /\ graph = NoGraph
    /\ edge_w = <<>>
    /\ state = <<>>
    /\ senders = <<>>
    /\ receivers = <<>>
    /\ chan = <<>>
    /\ pc = <<>>
    /\ idx = <<>>
    /\ msgs = <<>>
    /\ stopping_state = <<>>
    /\ iterations = <<>>
    /\ stop_count = 0
    /\ panicked = {}
    /\ unfinished = 0
    /\ expired = {}
    /\ calls = <<>>

InitOf(a, es) == InitRun(a, es, 0)

Init == \E sim \in Simulations : InitOf(sim[1], sim[2])

Worker(v) ==
    \/ Send(v)
    \/ Recv(v)
    \/ Transition(v)
    \/ Check(v)
    \/ DropSenders(v)
    \/ DropReceivers(v)

Next ==
    \/ from_network
    \/ run
    \/ \E v \in Nodes : Worker(v)
    \/ Report

Spec == Init /\ [][Next]_vars

\* The same runs, named apart for the properties of the rounds and of the wiring
\* of the channels, which are checked on their own.
SpecRounds == Init /\ [][Next]_vars

\* The simulations whose every behaviour is followed to its end: BMM on the
\* even/odd bipartite edge lists of at most four vertices.
LiveSimulations ==
    {"BMM"} \X {es \in BipartiteNetworks : MaxIndex(es) <= 3}

InitLive == \E sim \in LiveSimulations : InitOf(sim[1], sim[2])

\* The scheduler runs every thread that can take a step: the main thread
\* (from_network, run, the report) and the worker of every vertex.
AllVertices == UNION {0..MaxIndex(sim[2]) : sim \in Simulations}

FairSpec ==
    /\ InitLive
    /\ [][Next]_vars
    /\ WF_vars(from_network)
    /\ WF_vars(run)
    /\ WF_vars(Report)
    /\ \A v \in AllVertices : WF_vars(v \in Nodes /\ Worker(v))

(***************************************************************************)
(* The builder alone, on every edge list within the bounds.                *)
(***************************************************************************)
EdgeLists ==
    UNION {[1..n -> (0..MaxNodeId) \X (0..MaxNodeId)] : n \in 0..MaxEdges}

InitBuild == \E es \in EdgeLists : InitOf("BMM", es)

NextBuild == from_network

SpecBuild == InitBuild /\ [][NextBuild]_vars

(***************************************************************************)
(* Runs in which the deadline passes.  The deadline of a worker is taken   *)
(* just before its thread is spawned, vertex by vertex, so the deadlines   *)
(* pass in the order of the vertices.  send_deadline and recv_deadline     *)
(* first try the operation and return Timeout only when it would block.    *)
(***************************************************************************)
Expire ==
    /\ phase = "running"
    /\ Nodes \ expired # {}
    /\ expired' = expired \cup {MinOf(Nodes \ expired)}
    /\ UNCHANGED <<alg, edges, round_limit, calls, phase, graph, edge_w, state, senders,
                   receivers, chan, pc, idx, msgs, stopping_state, iterations,
                   stop_count, panicked, unfinished>>

\* send_deadline returns SendTimeoutError::Timeout: the buffer is full, the
\* receiver lives and the deadline has passed.
SendTimeout(v) ==
    /\ phase = "running"
    /\ pc[v] = "send"
    /\ idx[v] > 1 \/ MayBegin(v)
    /\ v \in expired
    /\ ~chan[senders[v][idx[v]]].rdrop
    /\ Full(senders[v][idx[v]])
    /\ Break(v)
    /\ UNCHANGED <<alg, edges, round_limit, expired, calls, phase, graph, edge_w, state,
                   senders, receivers, chan, idx, msgs, stopping_state, iterations,
                   stop_count, panicked, unfinished>>

\* The Timeout of recv_deadline taken for a completed round: the worker records
\* its state as its stopping state and counts it before it leaves.
RecvTimeout_Records(v) ==
    /\ phase = "running"
    /\ pc[v] = "recv"
    /\ v \in expired
    /\ ~chan[receivers[v][idx[v]]].sdrop
    /\ chan[receivers[v][idx[v]]].buf = <<>>
    /\ Break(v)
    /\ msgs' = [msgs EXCEPT ![v] = <<>>]
    /\ stopping_state' = [stopping_state EXCEPT ![v] = [some |-> TRUE, s |-> state[v]]]
    /\ stop_count' = stop_count + 1
    /\ UNCHANGED <<alg, edges, round_limit, expired, calls, phase, graph, edge_w, state,
                   senders, receivers, chan, idx, iterations, panicked, unfinished>>

\* recv_deadline returns RecvTimeoutError::Timeout: the buffer is empty, the
\* sender lives and the deadline has passed.
RecvTimeout(v) ==
    /\ phase = "running"
    /\ pc[v] = "recv"
    /\ v \in expired
    /\ ~chan[receivers[v][idx[v]]].sdrop
    /\ chan[receivers[v][idx[v]]].buf = <<>>
    /\ Break(v)
    /\ msgs' = [msgs EXCEPT ![v] = <<>>]
    /\ UNCHANGED <<alg, edges, round_limit, expired, calls, phase, graph, edge_w, state,
                   senders, receivers, chan, idx, stopping_state, iterations,
                   stop_count, panicked, unfinished>>

\* Edge lists for the runs with a deadline: an edge, an edge beside a vertex
\* without edges, a path, and lists with a self-loop, which from_network lets
\* through.
TimedNetworks ==
    { << <<0, 1>> >>,
      << <<1, 2>> >>,
      << <<0, 1>>, <<2, 1>> >>,
      << <<0, 0>> >>,
      << <<0, 1>>, <<1, 1>> >> }

TimedSimulations == {"BMM", "IN"} \X TimedNetworks

InitTimed ==
    \E sim \in TimedSimulations, rl \in 0..MaxRoundLimit : InitRun(sim[1], sim[2], rl)

NextTimed ==
    \/ from_network
    \/ run
    \/ Expire
    \/ \E v \in Nodes : Worker(v) \/ SendTimeout(v) \/ RecvTimeout(v)
    \/ Report

SpecTimed == InitTimed /\ [][NextTimed]_vars

\* The runs of the matching alone, on even/odd bipartite graphs and on graphs
\* with an edge between two vertices of one colour.
InitBmm == \E es \in BipartiteNetworks \cup OddNetworks : InitOf("BMM", es)

SpecBmm == InitBmm /\ [][Next]_vars

\* The same runs, for the properties of the states MR, US and MS.
SpecBmmStates == InitBmm /\ [][Next]_vars

\* The runs of the vertex cover alone.
InitMvc == \E es \in CoverNetworks : InitOf("MVC", es)

SpecMvc == InitMvc /\ [][Next]_vars

\* The runs without a round limit and without a timeout, on the simple graphs
\* and on the edge lists with a self-loop that from_network lets through.
InitExit ==
    \E sim \in Simulations \cup TimedSimulations : InitOf(sim[1], sim[2])

SpecExit == InitExit /\ [][Next]_vars

\* The runs with a round limit and a timeout that does not expire.
InitLimit ==
    \E sim \in Simulations, rl \in 1..MaxRoundLimit : InitRun(sim[1], sim[2], rl)

SpecLimit == InitLimit /\ [][Next]_vars

\* The runs with a deadline and round_limit 0, every thread scheduled again
\* and again and every deadline passing in the end.
InitTimedFair == \E sim \in TimedSimulations : InitRun(sim[1], sim[2], 0)

TimedVertices == UNION {0..MaxIndex(es) : es \in TimedNetworks}

FairTimed ==
    /\ InitTimedFair
    /\ [][NextTimed]_vars
    /\ WF_vars(from_network)
    /\ WF_vars(run)
    /\ WF_vars(Expire)
    /\ WF_vars(Report)
    /\ \A v \in TimedVertices :
          WF_vars(v \in Nodes /\ (Worker(v) \/ SendTimeout(v) \/ RecvTimeout(v)))

(***************************************************************************)
(* Edge::endpoint called directly: the method and the type are public, so  *)
(* a caller may ask an edge for endpoints any number of times.             *)
(***************************************************************************)
\* One call of endpoint on edge e of the built graph.  The record of the call
\* keeps what was returned; a failed assertion returns nothing and aborts.
EndpointCall ==
    /\ phase = "built"
    /\ Len(calls) < MaxCalls
    /\ \E e \in 1..Len(edge_w) :
       \E r \in {endpoint(e, edge_w[e])} :
           /\ edge_w' = [edge_w EXCEPT ![e] = r.edge]
           /\ calls' = Append(calls, [edge |-> e, panic |-> r.panic,
                                      send |-> r.send, recv |-> r.recv])
           /\ phase' = IF r.panic
                       THEN "panic: attempt to acquire third endpoint for edge"
                       ELSE phase
    /\ UNCHANGED <<alg, edges, round_limit, expired, graph, state, senders, receivers,
                   chan, pc, idx, msgs, stopping_state, iterations, stop_count,
                   panicked, unfinished>>

NextEdge == from_network \/ EndpointCall

SpecEdge == InitBuild /\ [][NextEdge]_vars

(***************************************************************************)
(* Vocabulary of the properties.                                           *)
(***************************************************************************)
\* Every edge of the list joins an even-indexed and an odd-indexed vertex.
EvenOdd(es) == \A k \in 1..Len(es) : (es[k][1] + es[k][2]) % 2 = 1

\* run has returned normally.
Final == phase = "finished"

\* The worker that receives what v sends on port p (from 0).
Peer(v, p) ==
    CHOOSE w \in Nodes : \E q \in 1..Len(receivers[w]) : receivers[w][q] = senders[v][p + 1]

\* The edge (its index in the container) behind port p (from 0) of v.
PortEdge(v, p) == senders[v][p + 1][1]

\* The vertices that ended matched, and the edges they name.
InMs(v) == state[v].matching_state.tag = "Ms"

MatchedEdges == {{v, Peer(v, state[v].matching_state.i)} : v \in {u \in Nodes : InMs(u)}}

GraphEdges == {{graph.edges[k][1], graph.edges[k][2]} : k \in 1..Len(graph.edges)}

(***************************************************************************)
(* Properties of Bipartite Maximal Matching run by the engine.             *)
(***************************************************************************)
\* C1: when run has returned from BMM on an even/odd bipartite graph, the edges
\* named by the vertices in MS(p) are edges of the graph, no two of them share a
\* vertex, and every other edge of the graph has an endpoint in MS(_).
C1_MaximalMatching ==
    (alg = "BMM" /\ EvenOdd(edges) /\ Final) =>
        /\ \A v \in Nodes : InMs(v) => state[v].matching_state.i < Len(senders[v])
        /\ MatchedEdges \subseteq GraphEdges
        /\ \A e1, e2 \in MatchedEdges : e1 # e2 => e1 \cap e2 = {}
        /\ \A e \in GraphEdges \ MatchedEdges : \E v \in e : InMs(v)

\* C1 witness: BMM has finished on the 4-cycle with two matched edges, the
\* other two edges left out of the matching.
C1_Witness ==
    /\ alg = "BMM" /\ EvenOdd(edges) /\ Final
    /\ Len(edges) = 4
    /\ Cardinality(MatchedEdges) = 2
    /\ Cardinality(GraphEdges \ MatchedEdges) = 2

\* C2: when run has returned from BMM on an even/odd bipartite graph, a vertex u
\* in MS(p_u) whose port p_u leads to v finds v in MS(p_v), port p_v of v leading
\* back to u over the same edge.
C2_Symmetric ==
    (alg = "BMM" /\ EvenOdd(edges) /\ Final) =>
        \A u \in Nodes : InMs(u) =>
            LET pu == state[u].matching_state.i
                v  == Peer(u, pu)
                pv == state[v].matching_state.i
            IN  /\ InMs(v)
                /\ Peer(v, pv) = u
                /\ PortEdge(v, pv) = PortEdge(u, pu)
                /\ {u, v} = {graph.edges[PortEdge(u, pu)][1], graph.edges[PortEdge(u, pu)][2]}

\* C2 witness: two vertices ended matched to each other over one edge that is
\* port 2 (index 1) of one and port 1 (index 0) of the other.
C2_Witness ==
    /\ alg = "BMM" /\ EvenOdd(edges) /\ Final
    /\ \E u, v \in Nodes :
        /\ InMs(u) /\ InMs(v)
        /\ state[u].matching_state.i = 1
        /\ state[v].matching_state.i = 0
        /\ Peer(u, 1) = v /\ Peer(v, 0) = u

\* Every worker has left its loop, every vertex is in a stopping state and
\* counted, and run has reported success.
AllStopped ==
    /\ Final
    /\ unfinished = 0
    /\ stop_count = graph.node_count
    /\ \A v \in Nodes : pc[v] = "done" /\ is_output(alg, state[v])

\* C3: BMM on an even/odd bipartite graph, vertices without edges included:
\* eventually every vertex is in US or MS(_), the stop counter is N, every worker
\* has exited and run has ended with all N vertices in a stopping state.
C3_Terminates == (alg = "BMM" /\ EvenOdd(edges)) => <>AllStopped

\* C3 witness: the run has ended with every vertex stopped on a graph that has
\* a vertex without edges, and a Black vertex ended unmatched beside a matched
\* neighbour.
C3_Witness ==
    /\ alg = "BMM" /\ EvenOdd(edges) /\ AllStopped
    /\ \E v \in Nodes : Len(senders[v]) = 0
    /\ \E v \in Nodes : /\ state[v].color = "Black" /\ state[v].matching_state = Us
                        /\ Len(senders[v]) > 0

(***************************************************************************)
(* Properties of the stopping states.                                      *)
(***************************************************************************)
Started == phase \in {"running", "finished"}

\* C4: no worker fails the assertion "detected post-stop state transition":
\* the recorded stopping state is a stopping state, and the state of its vertex
\* compares equal to it ever after, for each of the three algorithms.
C4_StopAbsorbing ==
    /\ panicked = {}
    /\ phase # "panic: a scoped thread panicked"
    /\ \A v \in DOMAIN stopping_state :
          stopping_state[v].some =>
              /\ is_output(alg, stopping_state[v].s)
              /\ StateEq(alg, state[v], stopping_state[v].s)

\* C4 witness: a BMM vertex has computed a further state after its first
\* stopping state and passed the assertion; the two differ in the round counter.
C4_Witness ==
    /\ alg = "BMM" /\ phase = "running"
    /\ \E v \in Nodes :
        /\ pc[v] = "check"
        /\ stopping_state[v].some
        /\ state[v].round > stopping_state[v].s.round

(***************************************************************************)
(* Properties of the vertex cover.                                         *)
(***************************************************************************)
\* The vertices printed as 1.
Printed1 == {v \in Nodes : MvcDebug(state[v]) = 1}

IsCover(S) == \A k \in 1..Len(graph.edges) :
                  graph.edges[k][1] \in S \/ graph.edges[k][2] \in S

\* The size of a minimum vertex cover of the graph.
OptCover ==
    MinOf({Cardinality(S) : S \in {T \in SUBSET Nodes : IsCover(T)}})

\* C5: MVC-3 on a simple graph never comes to a halt before run has returned,
\* and when run has returned every vertex is in a stopping state and every edge
\* has an endpoint printed as 1.
C5_VertexCover ==
    alg = "MVC" =>
        /\ Final \/ ENABLED Next
        /\ Final => (unfinished = 0 /\ IsCover(Printed1))

\* C5 witness: MVC-3 has finished on the triangle, a graph with an odd cycle,
\* with a vertex printed as 0.
C5_Witness ==
    /\ alg = "MVC" /\ Final
    /\ edges = << <<0, 1>>, <<1, 2>>, <<0, 2>> >>
    /\ Printed1 # Nodes

\* C6: when MVC-3 has finished, the number of vertices printed as 1 is at most
\* three times the size of a minimum vertex cover.
C6_Ratio ==
    (alg = "MVC" /\ Final) => Cardinality(Printed1) <= 3 * OptCover

\* C6 witness: MVC-3 has finished with more vertices printed as 1 than a
\* minimum cover has.
C6_Witness ==
    /\ alg = "MVC" /\ Final
    /\ Cardinality(Printed1) > OptCover

(***************************************************************************)
(* Properties of the neighbourhood count.                                  *)
(***************************************************************************)
\* The value of v after round r of the lock-step execution: the degree, then
\* the sum over the neighbours of v of their values after the round before.
RECURSIVE SyncValue(_, _)
SyncValue(v, r) ==
    IF r = 0 THEN node_degrees(edges, v)
    ELSE SumSeq([k \in 1..Len(Targets(graph.edges, v)) |->
                    SyncValue(Targets(graph.edges, v)[k], r - 1)])

IsRegular == \A v \in Nodes : node_degrees(edges, v) = node_degrees(edges, 0)

\* C7: in every state of a run of Isomorphic Neighborhood, a vertex whose round
\* component is r holds the sum over its neighbours of their values after round
\* r - 1; when run has returned on a k-regular graph every vertex holds
\* Count(D, k^(D+1)).
C7_NeighbourSum ==
    (alg = "IN" /\ Started) =>
        /\ \A v \in Nodes : state[v].n = SyncValue(v, state[v].i)
        /\ (Final /\ IsRegular) =>
              \A v \in Nodes : state[v] = Count(D, node_degrees(edges, 0) ^ (D + 1))

\* C7 witness: the run has returned on the 3-regular graph of four vertices
\* with 3^(D+1) at vertex 0.
C7_Witness ==
    /\ alg = "IN" /\ Final /\ IsRegular
    /\ node_degrees(edges, 0) = 3
    /\ state[0] = Count(D, 3 ^ (D + 1))

Min2(a, b) == IF a < b THEN a ELSE b

\* C8: in a run of Isomorphic Neighborhood the round component of a vertex is
\* the number of its receive transitions, up to D and never more; the state is a
\* stopping state exactly from the D-th transition on, and when run has returned
\* every vertex is at round D.
C8_ExactlyD ==
    (alg = "IN" /\ Started) =>
        \A v \in Nodes :
            LET done == IF pc[v] = "check" THEN iterations[v] + 1 ELSE iterations[v]
            IN  /\ state[v].i <= D
                /\ pc[v] \in {"send", "recv", "transition", "check"} =>
                      /\ state[v].i = Min2(done, D)
                      /\ InIsOutput(state[v]) <=> done >= D
                /\ stopping_state[v].some => state[v].i = D
                /\ Final => state[v].i = D

\* C8 witness: a vertex has made more than D receive transitions and its round
\* component is D.
C8_Witness ==
    /\ alg = "IN" /\ phase = "running"
    /\ \E v \in Nodes : pc[v] = "check" /\ iterations[v] + 1 > D /\ state[v].i = D

(***************************************************************************)
(* Properties of the builder.                                              *)
(***************************************************************************)
\* The list holds one unordered pair at two positions.
HasDuplicate(es) ==
    \E i, j \in 1..Len(es) : i # j /\ {es[i][1], es[i][2]} = {es[j][1], es[j][2]}

HasSelfLoop(es) == \E i \in 1..Len(es) : es[i][1] = es[i][2]

\* C9: from_network ends in the assertion "graph must be simple" on every edge
\* list that holds the same unordered pair twice, in either orientation.
C9_DuplicateRejected ==
    (phase # "input" /\ HasDuplicate(edges)) => phase = "panic: graph must be simple"

\* C9 witness: the list [(0,1), (1,0)] was rejected.
C9_Witness ==
    /\ phase = "panic: graph must be simple"
    /\ edges = << <<0, 1>>, <<1, 0>> >>

\* C10: from_network ends in a fatal assertion on every edge list that holds a
\* self-loop (u, u), so no built graph has a self-loop.
C10_SelfLoopRejected ==
    (phase # "input" /\ HasSelfLoop(edges)) =>
        phase \in {"panic: graph must be simple", "panic: no edges given"}

(***************************************************************************)
(* Properties of Edge::endpoint.                                           *)
(***************************************************************************)
\* The calls made on edge e, in order.
CallsOn(e) == SelectSeq(calls, LAMBDA c : c.edge = e)

\* C11: on every edge the first and the second call of endpoint return an
\* endpoint, the third call fails the assertion, and no sequence of calls hands
\* out more than two endpoints for one edge.
C11_ThirdCallFails ==
    \A e \in 1..Len(edge_w) :
        /\ Len(CallsOn(e)) >= 1 => ~CallsOn(e)[1].panic
        /\ Len(CallsOn(e)) >= 2 => ~CallsOn(e)[2].panic
        /\ Len(CallsOn(e)) >= 3 => CallsOn(e)[3].panic
        /\ Len(SelectSeq(CallsOn(e), LAMBDA c : ~c.panic)) <= 2

(***************************************************************************)
(* Properties of the ports.                                                *)
(***************************************************************************)
\* The positions of the edge list whose edge has v as an end.
Incident(v) == {k \in 1..Len(edges) : edges[k][1] = v \/ edges[k][2] = v}

\* C12: for every vertex of an accepted graph, the node_degree passed to init,
\* the number of senders and of receivers acquired, and the number of messages
\* handed to receive at the end of a receive phase are all the number of edges
\* incident to the vertex.
C12_PortCount ==
    Started =>
        \A v \in Nodes :
            /\ node_degrees(edges, v) = Cardinality(Incident(v))
            /\ Len(senders[v]) = Cardinality(Incident(v))
            /\ Len(receivers[v]) = Cardinality(Incident(v))
            /\ Len(senders[v]) = node_degrees(edges, v)
            /\ pc[v] = "transition" => Len(msgs[v]) = Cardinality(Incident(v))

(***************************************************************************)
(* Properties of the end of a run.                                         *)
(***************************************************************************)
\* Every worker has left its loop and dropped its channels.
AllExited == phase \in {"running", "finished"} /\ \A v \in Nodes : pc[v] = "done"

\* C13: with round_limit 0, once the deadline of every worker has passed or the
\* stop counter has reached the number of vertices, every worker leaves its
\* loop in the end, so that run returns.
C13_EveryWorkerExits ==
    (phase = "running" /\ (expired = Nodes \/ stop_count >= graph.node_count))
        ~> AllExited

\* A worker that can leave its loop no more: it has no port, so it makes no call
\* that looks at the deadline; there is no round limit; it has recorded its
\* stopping state, so the stop counter holds its count; every other worker has
\* ended and the counter is below the number of vertices.
Trapped(v) ==
    /\ phase = "running"
    /\ round_limit = 0
    /\ pc[v] \in {"send", "recv", "transition", "check"}
    /\ Len(senders[v]) = 0
    /\ stopping_state[v].some
    /\ stop_count < graph.node_count
    /\ \A w \in Nodes \ {v} : pc[w] = "done"

\* C13 as a property of states: a run with round_limit 0 reaches no state from
\* which a worker cannot leave its loop, though every deadline has passed.
C13_NoWorkerTrapped ==
    ~(\E v \in Nodes : expired = Nodes /\ Trapped(v))

\* C14: when run has returned, the number it reports is the number of vertices
\* whose state is not a stopping state, and it is 0, the report of success,
\* exactly when every vertex is in a stopping state, however the workers left
\* their loops.
C14_Report ==
    Final =>
        /\ unfinished + Cardinality({v \in Nodes : is_output(alg, state[v])})
               = graph.node_count
        /\ unfinished = 0 <=> \A v \in Nodes : is_output(alg, state[v])

\* C14 witness: run has returned after a deadline passed, with a vertex in a
\* stopping state and a vertex that is not, and reports the latter.
C14_Witness ==
    /\ Final /\ expired # {}
    /\ unfinished > 0
    /\ \E v \in Nodes : is_output(alg, state[v])
    /\ \E v \in Nodes : ~is_output(alg, state[v])

(***************************************************************************)
(* Properties of the rounds.  A worker in its loop has completed           *)
(* iterations[v] rounds; the round under way is round iterations[v] + 1.   *)
(***************************************************************************)
InLoop(v) == pc[v] \in {"send", "recv", "transition", "check"}

\* The ports of v, from 1, in the order of DaSimulator::edges.
Ports(v) == 1..Len(senders[v])

\* The neighbour across port p of v, and the port of that neighbour that is the
\* same edge of the graph.
PortPeer(v, p) == target(graph.edges, v, senders[v][p][1])

PeerPort(v, p) ==
    CHOOSE q \in Ports(PortPeer(v, p)) : senders[PortPeer(v, p)][q][1] = senders[v][p][1]

\* The number of messages v has sent on port p, and has received on port p.
Sent(v, p) ==
    iterations[v] + IF \/ pc[v] = "send" /\ idx[v] > p
                       \/ pc[v] \in {"recv", "transition", "check"}
                    THEN 1 ELSE 0

Rcvd(v, p) ==
    iterations[v] + IF \/ pc[v] = "recv" /\ idx[v] > p
                       \/ pc[v] \in {"transition", "check"}
                    THEN 1 ELSE 0

\* The number of send phases and of receive phases v has completed.
SendPhases(v) == iterations[v] + IF pc[v] \in {"recv", "transition", "check"} THEN 1 ELSE 0

RecvPhases(v) == iterations[v] + IF pc[v] \in {"transition", "check"} THEN 1 ELSE 0

\* v has sent a message of the round under way.
HasBegun(v) == Sent(v, 1) > iterations[v]

\* C15 as stated: no worker has begun the sends of round k + 1 while a neighbour
\* still in its loop has not completed both its sends and its receives of
\* round k.
C15_NeighboursDone ==
    Started =>
        \A u \in Nodes :
            (InLoop(u) /\ Len(senders[u]) > 0 /\ HasBegun(u)) =>
                \A p \in Ports(u) :
                    InLoop(PortPeer(u, p)) =>
                        /\ SendPhases(PortPeer(u, p)) >= iterations[u]
                        /\ RecvPhases(PortPeer(u, p)) >= iterations[u]

\* C15 amended: per port, the messages a worker has sent are those its
\* neighbour has received on that edge, or one more: no send of round k + 1 on
\* a port completes before the neighbour has received the message of round k
\* on it, and no receive of round k before the neighbour has sent in round k.
C15_PerPort ==
    Started =>
        \A u \in Nodes :
            InLoop(u) =>
                \A p \in Ports(u) :
                    InLoop(PortPeer(u, p)) =>
                        /\ Rcvd(PortPeer(u, p), PeerPort(u, p)) <= Sent(u, p)
                        /\ Sent(u, p) <= Rcvd(PortPeer(u, p), PeerPort(u, p)) + 1

\* C15 witness: a worker has sent on its first port in its second round while
\* the neighbour across its second port has not completed the receives of the
\* first round.
C15_Witness ==
    /\ phase = "running"
    /\ \E u \in Nodes :
        /\ InLoop(u) /\ iterations[u] = 1 /\ Len(senders[u]) >= 2
        /\ Sent(u, 1) = 2
        /\ InLoop(PortPeer(u, 2)) /\ RecvPhases(PortPeer(u, 2)) = 0
        /\ Rcvd(PortPeer(u, 1), PeerPort(u, 1)) = 1

\* C16: in every state, the workers at the two ends of an edge have completed
\* numbers of rounds that differ by at most one.
C16_OneRoundApart ==
    Started =>
        \A k \in 1..Len(graph.edges) :
            /\ iterations[graph.edges[k][1]] - iterations[graph.edges[k][2]] <= 1
            /\ iterations[graph.edges[k][2]] - iterations[graph.edges[k][1]] <= 1

\* C16 witness: the workers at the two ends of an edge, both in their loops,
\* have completed different numbers of rounds.
C16_Witness ==
    /\ phase = "running"
    /\ \E k \in 1..Len(graph.edges) :
        /\ InLoop(graph.edges[k][1]) /\ InLoop(graph.edges[k][2])
        /\ iterations[graph.edges[k][1]] = iterations[graph.edges[k][2]] + 1
        /\ iterations[graph.edges[k][2]] >= 1

(***************************************************************************)
(* The lock-step reference execution: in every round each vertex sends on  *)
(* every port from its state at the start of the round, and then computes  *)
(* its next state from the messages that arrive on its ports.              *)
(***************************************************************************)
\* The states of all vertices before the first round.
RefInit ==
    [v \in Nodes |->
        A_init(alg, [node_id |-> v, node_count |-> graph.node_count,
                     node_degree |-> node_degrees(edges, v)])]

\* One round: from the states of all vertices to their next states.
RefStep(prev) ==
    [v \in Nodes |->
        A_receive(alg, prev[v],
                  [p \in Ports(v) |-> A_send(alg, prev[PortPeer(v, p)], PeerPort(v, p) - 1)])]

RefExtend(s) == Append(s, RefStep(s[Len(s)]))

\* The reference execution up to round k: element r + 1 holds the states of all
\* vertices after r rounds.
RECURSIVE RefRun(_)
RefRun(k) == IF k = 0 THEN <<RefInit>> ELSE RefExtend(RefRun(k - 1))

\* The most rounds a worker has completed, the round under way counted.
RoundsSeen == 1 + MaxOf({iterations[v] : v \in Nodes})

\* C17: in every state of a run without timeout, the state of a worker that
\* has completed k rounds is the state of its vertex after round k of the
\* reference execution, every message it has consumed in the round under way is
\* the one its neighbour produces at the start of the same round of the
\* reference execution, and the final states are those of the reference
\* execution, whatever the interleaving.
C17_Refines ==
    Started =>
        \E ref \in {RefRun(IF Final THEN MaxIter + 1 ELSE RoundsSeen)} :
        \A v \in Nodes :
            /\ pc[v] \in {"send", "recv", "transition"} =>
                  state[v] = ref[iterations[v] + 1][v]
            /\ pc[v] = "check" => state[v] = ref[iterations[v] + 2][v]
            /\ pc[v] \in {"recv", "transition"} =>
                  \A j \in 1..Len(msgs[v]) :
                      msgs[v][j] = A_send(alg, ref[iterations[v] + 1][PortPeer(v, j)],
                                          PeerPort(v, j) - 1)
            /\ pc[v] \in {"drop_senders", "drop_receivers", "done"} =>
                  \/ state[v] = ref[iterations[v] + 1][v]
                  \/ state[v] = ref[iterations[v] + 2][v]
            /\ Final => StateEq(alg, state[v], ref[MaxIter + 2][v])

\* C17 witness: a worker has consumed, in its third round, a message from a
\* neighbour that has completed fewer rounds than a neighbour across another
\* port, and is about to compute its state.
C17_Witness ==
    /\ phase = "running"
    /\ \E v \in Nodes :
        /\ pc[v] = "transition" /\ iterations[v] = 2 /\ Len(msgs[v]) >= 2
        /\ iterations[PortPeer(v, 1)] # iterations[PortPeer(v, 2)]

(***************************************************************************)
(* Properties of the blocking of the workers.                              *)
(***************************************************************************)
\* v waits in send_deadline: the buffer is full and its receiver lives.
BlockedSend(v) ==
    /\ pc[v] = "send"
    /\ Full(senders[v][idx[v]])
    /\ ~chan[senders[v][idx[v]]].rdrop

\* v waits in recv_deadline: the buffer is empty and its sender lives.
BlockedRecv(v) ==
    /\ pc[v] = "recv"
    /\ chan[receivers[v][idx[v]]].buf = <<>>
    /\ ~chan[receivers[v][idx[v]]].sdrop

\* C18: in a run on a simple graph with no timeout there is no state in which
\* some worker has not exited and every worker that has not exited waits in a
\* send or in a receive.
C18_NoDeadlock ==
    phase = "running" =>
        ((\E v \in Nodes : pc[v] # "done") =>
            \E v \in Nodes : pc[v] # "done" /\ ~BlockedSend(v) /\ ~BlockedRecv(v))

\* C18 witness: one worker waits in a send and another waits in a receive.
C18_Witness ==
    /\ phase = "running"
    /\ \E u, v \in Nodes : BlockedSend(u) /\ BlockedRecv(v)

(***************************************************************************)
(* Properties of the wiring.                                               *)
(***************************************************************************)
\* C19: for the two endpoints run acquires on an edge, the sender of each is
\* the channel of the receiver of the other and not of its own receiver, the two
\* directions are two channels, each holds one message at most, and a message
\* waiting in a channel is the one the vertex at its sending end produces for
\* that port.
C19_Pairing ==
    Started =>
        \A u \in Nodes :
            \A p \in Ports(u) :
                /\ senders[u][p] = receivers[PortPeer(u, p)][PeerPort(u, p)]
                /\ receivers[u][p] = senders[PortPeer(u, p)][PeerPort(u, p)]
                /\ senders[u][p] # receivers[u][p]
                /\ Len(chan[senders[u][p]].buf) <= 1
                /\ (pc[u] \in {"send", "recv"} /\ chan[senders[u][p]].buf # <<>>
                        /\ Sent(u, p) > iterations[u]) =>
                      Head(chan[senders[u][p]].buf) = A_send(alg, state[u], p - 1)

\* C19 witness: on one edge both directions hold a message at the same time.
C19_Witness ==
    /\ phase = "running"
    /\ \E u \in Nodes :
        \E p \in Ports(u) :
            /\ chan[senders[u][p]].buf # <<>>
            /\ chan[receivers[u][p]].buf # <<>>

\* The positions of the edge list whose edge has v as an end, in list order.
InsertionOrder(v) ==
    SelectSeq(Indices(edges), LAMBDA k : edges[k][1] = v \/ edges[k][2] = v)

\* C20: for every accepted edge list (here: of a simple graph) and every
\* vertex, the edges of the vertex in port order, as DaSimulator::edges returns
\* them, are its incident edges in the order of the edge list.
C20_InsertionOrder ==
    (phase = "built" /\ ~HasSelfLoop(edges)) =>
        \A v \in Nodes : edges_of(graph.edges, v) = InsertionOrder(v)

(***************************************************************************)
(* Properties of the stop counter.                                         *)
(***************************************************************************)
\* The workers that have recorded a stopping state.
Recorded == {v \in Nodes : stopping_state[v].some}

\* C21: in every state of a run the stop counter is the number of workers that
\* have recorded a stopping state, it is at most the number of vertices, and the
\* state of every such vertex is a stopping state; every step that changes the
\* counter adds one to it, for a worker that had recorded none before.
C21_StopCounter ==
    /\ [](Started =>
            /\ stop_count = Cardinality(Recorded)
            /\ stop_count <= graph.node_count
            /\ \A v \in Recorded : is_output(alg, state[v]))
    /\ [][stop_count' # stop_count =>
            /\ stop_count' = stop_count + 1
            /\ \E v \in Nodes : ~stopping_state[v].some /\ stopping_state'[v].some]_vars

\* C21 witness: a worker that recorded its stopping state in an earlier round
\* has made a further transition, and the counter is below the number of
\* vertices.
C21_Witness ==
    /\ phase = "running"
    /\ 0 < stop_count /\ stop_count < graph.node_count
    /\ \E v \in Recorded : pc[v] = "check" /\ iterations[v] >= 2

(***************************************************************************)
(* Properties of the round limit.                                          *)
(***************************************************************************)
\* The worker has left its loop.
Exited(v) == pc[v] \in {"drop_senders", "drop_receivers", "done"}

\* C22: in a run with round_limit L > 0 and no timeout no worker completes more
\* than L rounds, and as long as the stop counter is below the number of
\* vertices every worker that has left its loop has completed exactly L rounds:
\* none was cut short by the closed channel of a neighbour.
C22_RoundLimit ==
    (Started /\ round_limit > 0) =>
        \A v \in Nodes :
            /\ iterations[v] <= round_limit
            /\ (Exited(v) /\ stop_count < graph.node_count) =>
                  iterations[v] = round_limit

\* C22 witness: a worker has ended at the limit of two rounds and dropped its
\* channels while a neighbour is still receiving in its second round.
C22_Witness ==
    /\ phase = "running" /\ round_limit = 2
    /\ stop_count < graph.node_count
    /\ \E k \in 1..Len(graph.edges) :
        \E u \in {graph.edges[k][1], graph.edges[k][2]} :
        \E v \in {graph.edges[k][1], graph.edges[k][2]} :
            /\ pc[u] = "done"
            /\ pc[v] = "recv" /\ iterations[v] = 1

(***************************************************************************)
(* The bipartite double cover: every vertex v has a White copy and a Black *)
(* copy, and an edge {u, v} joins the White copy of each end to the Black  *)
(* copy of the other, on the ports of the edge.  BMM runs on it in lock    *)
(* step.                                                                   *)
(***************************************************************************)
CoverInit ==
    [v \in Nodes |->
        [s1 |-> BpInit([node_id |-> 0, node_count |-> graph.node_count,
                        node_degree |-> node_degrees(edges, v)]),
         s2 |-> BpInit([node_id |-> 1, node_count |-> graph.node_count,
                        node_degree |-> node_degrees(edges, v)])]]

\* The messages the White copy (s1) of v consumes: those of the Black copies of
\* its neighbours; and the messages the Black copy (s2) of v consumes.
ToWhite(prev, v) ==
    [p \in Ports(v) |-> BpSend(prev[PortPeer(v, p)].s2, PeerPort(v, p) - 1)]

ToBlack(prev, v) ==
    [p \in Ports(v) |-> BpSend(prev[PortPeer(v, p)].s1, PeerPort(v, p) - 1)]

CoverStep(prev) ==
    [v \in Nodes |-> [s1 |-> BpReceive(prev[v].s1, ToWhite(prev, v)),
                      s2 |-> BpReceive(prev[v].s2, ToBlack(prev, v))]]

CoverExtend(s) == Append(s, CoverStep(s[Len(s)]))

\* Element r + 1 holds the copies of all vertices after r rounds.
RECURSIVE CoverRun(_)
CoverRun(k) == IF k = 0 THEN <<CoverInit>> ELSE CoverExtend(CoverRun(k - 1))

\* C23: in every round of a run of MVC-3 and on every port, the message handed
\* to s1 of a vertex is the one s2 of the neighbour across the port produces for
\* that port and the message handed to s2 is the one of the neighbour's s1, so
\* that s1 and s2 of every vertex go through the states of the White and the
\* Black copy in BMM on the double cover.
C23_DoubleCover ==
    (alg = "MVC" /\ phase = "running") =>
        \E cov \in {CoverRun(RoundsSeen)} :
        \A v \in Nodes :
            /\ pc[v] \in {"send", "recv", "transition"} =>
                  state[v] = cov[iterations[v] + 1][v]
            /\ pc[v] = "check" => state[v] = cov[iterations[v] + 2][v]
            /\ pc[v] \in {"recv", "transition"} =>
                  \A j \in 1..Len(msgs[v]) :
                      /\ msgs[v][j].m1 = ToWhite(cov[iterations[v] + 1], v)[j]
                      /\ msgs[v][j].m2 = ToBlack(cov[iterations[v] + 1], v)[j]

\* C23 witness: a vertex is about to compute its state from a message whose
\* part for s1 is the Accept of a Black copy and whose part for s2 is not.
C23_Witness ==
    /\ alg = "MVC" /\ phase = "running"
    /\ \E v \in Nodes :
        /\ pc[v] = "transition"
        /\ \E j \in 1..Len(msgs[v]) : msgs[v][j].m1 = "Accept" /\ msgs[v][j].m2 # "Accept"

(***************************************************************************)
(* Properties of a round that fails.                                       *)
(***************************************************************************)
\* The worker leaves its loop from the send or the receive phase of a round: a
\* send_deadline or a recv_deadline of the round returned Timeout or Closed.
FailingRound(v) == pc[v] \in {"send", "recv"} /\ pc'[v] = "drop_senders"

\* C25: the step in which a send or a receive of a round of a worker fails takes
\* the worker out of its loop and leaves the state of its vertex, its count of
\* completed rounds, its recorded stopping state and the stop counter as they
\* were, and the worker holds none of the messages it received in that round;
\* and the state of the vertex of a worker that has left its loop changes no
\* more.
C25_FailingRound ==
    [][(phase = "running" /\ phase' = "running") =>
       \A v \in Nodes :
          /\ FailingRound(v) =>
                /\ state'[v] = state[v]
                /\ iterations'[v] = iterations[v]
                /\ stopping_state' = stopping_state
                /\ stop_count' = stop_count
                /\ msgs'[v] = <<>>
          /\ Exited(v) => state'[v] = state[v]]_vars

\* C25 witness: a worker has left its loop on a recv_deadline that timed out at
\* its second port, after the message of its first port had been received, in a
\* round after its first; its state is not a stopping state.
C25_Witness ==
    /\ phase = "running"
    /\ \E v \in Nodes :
        /\ pc[v] = "drop_senders"
        /\ v \in expired
        /\ idx[v] = 2
        /\ msgs[v] = <<>>
        /\ iterations[v] >= 1
        /\ ~is_output(alg, state[v])
        /\ ~chan[receivers[v][2]].sdrop
        /\ chan[receivers[v][2]].buf = <<>>
        /\ \A p \in Ports(v) : ~chan[senders[v][p]].rdrop

(***************************************************************************)
(* Properties of the first exit.                                           *)
(***************************************************************************)
\* C26: in a run with round_limit 0 and no timeout, as soon as one worker has
\* left its loop the stop counter has reached the number of vertices and every
\* vertex has recorded a stopping state and is in that state, a stopping state;
\* so a worker that leaves on a closed channel has a stopping state, no worker
\* has failed its assertion, and the states read after the run are stopping
\* states.
C26_FirstExit ==
    (Started /\ round_limit = 0 /\ \E v \in Nodes : Exited(v)) =>
        /\ stop_count >= graph.node_count
        /\ panicked = {}
        /\ \A v \in Nodes :
            /\ stopping_state[v].some
            /\ StateEq(alg, state[v], stopping_state[v].s)
            /\ is_output(alg, state[v])

\* C26 witness: a neighbour has left its loop and dropped its channels, and a
\* worker is in a recv_deadline that returns Closed: the buffer of the port is
\* empty and its sender is dropped.
C26_Witness ==
    /\ phase = "running"
    /\ round_limit = 0
    /\ \E v \in Nodes :
        /\ pc[v] = "recv"
        /\ chan[receivers[v][idx[v]]].sdrop
        /\ chan[receivers[v][idx[v]]].buf = <<>>
        /\ pc[PortPeer(v, idx[v])] = "done"

(***************************************************************************)
(* Properties of the rules of the matching.                                *)
(***************************************************************************)
\* A run of BMM whose workers are in their loops.
BmmRun == alg = "BMM" /\ phase = "running"

\* A White vertex that has not settled.
WhiteUr(v) == state[v].color = "White" /\ state[v].matching_state = Ur

\* C24: a White vertex of degree d in UR has a round counter of at most 2d; what
\* it sends on port r is Proposal when its round counter is 2r and Noop
\* otherwise, so it sends no Proposal at round 2d; the receive in which it
\* becomes US is the one of round 2d, and the receive of round 2d makes it US.
C24_ProposalSchedule ==
    /\ [](BmmRun =>
            \A v \in Nodes : WhiteUr(v) =>
                /\ state[v].round <= 2 * state[v].degree
                /\ \A r \in 0..(state[v].degree - 1) :
                      BpSend(state[v], r) =
                          IF state[v].round = 2 * r THEN "Proposal" ELSE "Noop")
    /\ [][(BmmRun /\ phase' = "running") =>
            \A v \in Nodes : (WhiteUr(v) /\ state'[v] # state[v]) =>
                /\ state'[v].matching_state = Us => state[v].round = 2 * state[v].degree
                /\ state[v].round = 2 * state[v].degree => state'[v].matching_state = Us]_vars

\* C24 witness: a White vertex of degree 2 has proposed on both ports, was in
\* UR at round 4 and has become US in the receive of that round.
C24_Witness ==
    /\ BmmRun
    /\ \E v \in Nodes :
        /\ state[v].color = "White"
        /\ state[v].degree = 2
        /\ state[v].matching_state = Us
        /\ state[v].round = 5
        /\ pc[v] = "check"

\* The maximum degree of the graph of the edge list.
MaxDeg == MaxOf({node_degrees(edges, v) : v \in Nodes})

\* C27: in a run of BMM on an even/odd bipartite simple graph of maximum degree
\* MaxDeg, the state of a vertex after 2 * MaxDeg + 2 rounds or more is US or
\* MS(_), and that of a White vertex of degree d after 2 * d + 1 rounds or more;
\* the round counter of a recorded stopping state is within these bounds.
C27_StopBound ==
    (BmmRun /\ EvenOdd(edges)) =>
        \A v \in Nodes :
            /\ state[v].round >= 2 * MaxDeg + 2 => BpIsOutput(state[v])
            /\ (state[v].color = "White" /\ state[v].round >= 2 * state[v].degree + 1)
                    => BpIsOutput(state[v])
            /\ stopping_state[v].some =>
                    /\ stopping_state[v].s.round <= 2 * MaxDeg + 2
                    /\ state[v].color = "White" =>
                            stopping_state[v].s.round <= 2 * state[v].degree + 1

\* C27 witness: on an even/odd graph of maximum degree 2 a White vertex of
\* degree 2 has stopped after 5 rounds and not before.
C27_Witness ==
    /\ BmmRun /\ EvenOdd(edges)
    /\ MaxDeg = 2
    /\ \E v \in Nodes :
        /\ state[v].color = "White"
        /\ state[v].degree = 2
        /\ stopping_state[v].some
        /\ stopping_state[v].s.round = 5

\* The ports (from 0) on which v sends Accept in the round it is in.
AcceptPorts(v) == {i \in 0..(Len(senders[v]) - 1) : BpSend(state[v], i) = "Accept"}

\* The step in which the worker of v calls A::receive.
Receives(v) == pc[v] = "transition" /\ pc'[v] # "transition"

\* C28: in a run of BMM on an even/odd bipartite graph,
\*  - a Black vertex sends Accept on one port at most, in an odd round while in
\*    UR, and on a port of m_set; a Black vertex in UR at an even round has an
\*    empty m_set, and the receive of that round makes m_set the set of ports
\*    that brought Proposal: so the port of the Accept brought Proposal in the
\*    round before; the receive of the round of the Accept takes it to MS, which
\*    it never leaves: so it sends Accept in one round at most;
\*  - a White vertex that receives Accept on a port is in UR, in an odd round
\*    2r + 1, and the port is r, the one it proposed on in round 2r; the receive
\*    of that round takes it out of UR to MR(r), and it is never in UR again: so
\*    it receives Accept on one port at most over the run.
C28_AcceptDiscipline ==
    /\ [](BmmRun /\ EvenOdd(edges) =>
            \A v \in Nodes :
                /\ state[v].color = "Black" =>
                      /\ Cardinality(AcceptPorts(v)) <= 1
                      /\ AcceptPorts(v) # {} =>
                            /\ state[v].matching_state = Ur
                            /\ state[v].round % 2 = 1
                            /\ AcceptPorts(v) \subseteq state[v].m_set
                      /\ (state[v].matching_state = Ur /\ state[v].round % 2 = 0) =>
                            state[v].m_set = {}
                /\ (state[v].color = "White" /\ pc[v] \in {"recv", "transition"}) =>
                      \A j \in 1..Len(msgs[v]) : msgs[v][j] = "Accept" =>
                          /\ state[v].matching_state = Ur
                          /\ state[v].round = 2 * (j - 1) + 1
                /\ state[v].color = "White" => AcceptPorts(v) = {})
    /\ [][(BmmRun /\ EvenOdd(edges) /\ phase' = "running") =>
            \A v \in Nodes :
                /\ state[v].matching_state # Ur => state'[v].matching_state # Ur
                /\ state[v].matching_state.tag = "Ms" =>
                      state'[v].matching_state = state[v].matching_state
                /\ (Receives(v) /\ state[v].color = "Black") =>
                      /\ AcceptPorts(v) # {} => state'[v].matching_state.tag = "Ms"
                      /\ (state[v].matching_state = Ur /\ state[v].round % 2 = 0) =>
                            state'[v].m_set = PortsWith(msgs[v], "Proposal")
                /\ (Receives(v) /\ state[v].color = "White") =>
                      \A j \in 1..Len(msgs[v]) : msgs[v][j] = "Accept" =>
                          state'[v].matching_state = Mr(j - 1)]_vars

\* C28 witness: on an even/odd graph a White vertex is about to compute its
\* state from the Accept that its second port brought in round 3, and the Black
\* vertex across that port, which sent it, has two ports.
C28_Witness ==
    /\ BmmRun /\ EvenOdd(edges)
    /\ \E v \in Nodes :
        /\ state[v].color = "White"
        /\ pc[v] = "transition"
        /\ Len(msgs[v]) >= 2
        /\ msgs[v][2] = "Accept"
        /\ state[v].round = 3
        /\ Len(senders[PortPeer(v, 2)]) = 2

\* The vertex is in MR(_).
InMr(v) == state[v].matching_state.tag = "Mr"

\* C29: in every state of a run of BMM a vertex in MR(p) is White and has an
\* even round counter, and what it sends on every port is Matched; a vertex
\* enters MR(p) from UR in the receive of an odd round, and the next receive, that
\* of the round in which it sends Matched, takes it to MS(p).
C29_MrTransient ==
    /\ [](BmmRun =>
            \A v \in Nodes : InMr(v) =>
                /\ state[v].color = "White"
                /\ state[v].round % 2 = 0
                /\ \A i \in 0..(Len(senders[v]) - 1) : BpSend(state[v], i) = "Matched")
    /\ [][(BmmRun /\ phase' = "running") =>
            \A v \in Nodes :
                /\ (~InMr(v) /\ state'[v].matching_state.tag = "Mr") =>
                      /\ Receives(v)
                      /\ state[v].matching_state = Ur
                      /\ state[v].round % 2 = 1
                /\ (InMr(v) /\ state'[v] # state[v]) =>
                      /\ Receives(v)
                      /\ state'[v].matching_state = Ms(state[v].matching_state.i)]_vars

\* C29 witness: a vertex in MR(1) at round 4 has sent Matched on its ports and
\* is about to call A::receive.
C29_Witness ==
    /\ BmmRun
    /\ \E v \in Nodes :
        /\ state[v].matching_state = Mr(1)
        /\ state[v].round = 4
        /\ pc[v] = "transition"
        /\ Len(senders[v]) = 2

\* enum BpMessage.
BpMessage == {"Proposal", "Accept", "Matched", "Noop"}

\* The message vectors a vertex with the ports of v can receive.
Inputs(v) == [1..Len(senders[v]) -> BpMessage]

\* C30: in a run of BMM, for a vertex in US or MS(p) and whatever messages its
\* ports bring, receive yields its state with the round counter advanced by one
\* and nothing else changed, and send yields Noop on every port; and every step
\* of the run that changes the state of such a vertex is a call of receive that
\* changes its round counter alone.
C30_StoppedFrame ==
    /\ [](BmmRun =>
            \A v \in Nodes : BpIsOutput(state[v]) =>
                /\ \A msg \in Inputs(v) :
                      BpReceive(state[v], msg) = [state[v] EXCEPT !.round = @ + 1]
                /\ \A i \in 0..(Len(senders[v]) - 1) : BpSend(state[v], i) = "Noop")
    /\ [][(BmmRun /\ phase' = "running") =>
            \A v \in Nodes : (BpIsOutput(state[v]) /\ state'[v] # state[v]) =>
                /\ Receives(v)
                /\ state'[v] = [state[v] EXCEPT !.round = @ + 1]]_vars

\* C30 witness: a Black vertex in MS(_) is about to call receive on messages
\* that hold a Proposal or a Matched, in a round after the one it stopped in.
C30_Witness ==
    /\ BmmRun
    /\ \E v \in Nodes :
        /\ state[v].color = "Black"
        /\ state[v].matching_state.tag = "Ms"
        /\ pc[v] = "transition"
        /\ stopping_state[v].some
        /\ \E j \in 1..Len(msgs[v]) : msgs[v][j] \in {"Proposal", "Matched"}

====
